---- MODULE Spec2Model ----
(***************************************************************************)
(* A model of chronicle.Logger (src/chronicle/logger.py): a facade over    *)
(* the rerun SDK that keeps a mutable entity prefix, composes entity paths *)
(* from it, and forwards typed records to the sink (the module-level       *)
(* functions rr.init, rr.save, rr.set_time and rr.log).                    *)
(*                                                                         *)
(* Strings are sequences of tokens.  The token "/" is the separator        *)
(* character; every other token stands for a non-empty run of characters   *)
(* that holds no "/".  Concatenation and str.strip("/") act on token       *)
(* sequences exactly as they act on the characters.                        *)
(*                                                                         *)
(* An Optional[...] argument is a set: {} is None and {v} is the value v.  *)
(***************************************************************************)
EXTENDS Integers, Sequences, FiniteSets, TLC

\* ------------------------------------------------------------------ bounds

\* Open `with` blocks (context or batch) per control flow.
MaxDepth == 2
\* Sequence coordinates range over 0..MaxStep.
MaxStep == 1
\* Two flows on one Logger can grow its prefix without end: in SpecFlows a
\* scope is entered only while the prefix is shorter than this many tokens.
MaxPrefixLen == 4

\* ------------------------------------------------------------------ inputs

Flows == {"A", "B"}
Loggers == {"L1", "L2"}
None == {}
Some(v) == {v}

AppIds == {"app"}
\* entity_prefix arguments of the constructor: None, "p", "a/b/".
EntityPrefixes == {None, Some(<<"p">>), Some(<<"a", "/", "b", "/">>)}
\* config arguments of the constructor: None, or a dict (a function on its keys).
\*   {"spawn_viewer": False, "save_path": ""}   and   {"save_path": "out"}
ConfigFalseEmpty == [k \in {"spawn_viewer", "save_path"} |->
                        IF k = "spawn_viewer" THEN FALSE ELSE <<>>]
ConfigSave == [k \in {"save_path"} |-> <<"out">>]
Configs == {None, Some(ConfigFalseEmpty), Some(ConfigSave)}

\* path_prefix arguments of context(): "a", "b", "" and "/b".
PathPrefixes == {<<"a">>, <<"b">>, <<>>, <<"/", "b">>}
\* path arguments of the logging methods: "c", "/c" and "c/".
RelPaths == {<<"c">>, <<"/", "c">>, <<"c", "/">>}
Levels == {"info", "warning", "debug", "error", "critical"}
Timelines == {"step", "wall"}
Steps == 0..MaxStep
\* timestamp arguments of set_time_seconds (one float is enough to tell a
\* timestamp coordinate from a sequence coordinate).
Times == {0}
StepArgs == {None} \cup {Some(s) : s \in Steps}
\* Dictionaries handed to log_dict, by how Python serializes them:
\*   plain        json.dumps succeeds
\*   opaque       holds a value json cannot encode; default=str converts it
\*   circular     holds itself: json.dumps raises ValueError, str() succeeds
\*   unprintable  holds a value whose __repr__ raises, or is nested deeper
\*                than the recursion limit: json.dumps raises (from
\*                default=str, or RecursionError) and so does str()
Dicts == {"plain", "opaque", "circular", "unprintable"}

\* ----------------------------------------------------------------- strings

RECURSIVE LStrip(_)
\* str.lstrip("/")
LStrip(s) == IF s # <<>> /\ Head(s) = "/" THEN LStrip(Tail(s)) ELSE s

RECURSIVE RStrip(_)
\* str.rstrip("/")
RStrip(s) ==
    IF s # <<>> /\ s[Len(s)] = "/" THEN RStrip(SubSeq(s, 1, Len(s) - 1)) ELSE s

\* str.strip("/"): removes the leading and trailing "/" characters only.
Strip(s) == RStrip(LStrip(s))

\* f"{a}/{b}"
Join(a, b) == a \o <<"/">> \o b

\* Python truthiness of an Optional[str] / Optional[dict]: None, "" and {}
\* are falsy.
TruthyStr(opt) == \E v \in opt : v # <<>>

\* dict.get(key, default) on an Optional-wrapped result: {} when the key is
\* absent and there is no default.
DictGet(d, key) == IF key \in DOMAIN d THEN Some(d[key]) ELSE None

\* ------------------------------------------------------------------- state

VARIABLES
    flows,           \* the control flows (threads) of the run
    uses,            \* uses[f]: the Logger object flow f logs through
    status,          \* status[l]: "none" (not constructed yet), "ok", or how
                     \*   __init__ failed, leaving no object: "init_raised"
                     \*   (rr.init raised) or "save_raised" (rr.save raised)
    application_id,  \* self.application_id
    entity_prefix,   \* self.entity_prefix
    config,          \* self.config
    timelines,       \* the sink's time coordinates (rr.set_time), one per timeline
    frames,          \* frames[f]: the open `with` blocks of flow f, innermost
                     \*   last; a context() frame holds the generator's locals
    exc,             \* exc[f]: an error is propagating up flow f's stack
    last,            \* the last operation: its arguments, the sink calls it
                     \*   made in order, and how it ended
    ctor_prefix,     \* history: entity_prefix as the constructor left it
    init_calls,      \* history: rr.init calls made by session l
    save_calls,      \* history: rr.save calls made by session l
    rejected         \* history: the sink has rejected a record of session l

vars == <<flows, uses, status, application_id, entity_prefix, config, timelines,
          frames, exc, last, ctor_prefix, init_calls, save_calls, rejected>>

session == <<status, application_id, entity_prefix, config, ctor_prefix,
             init_calls, save_calls>>

\* A coordinate of a timeline: unset, a sequence number or a timestamp.
Unset == [kind |-> "unset", value |-> 0]
Sequence(n) == [kind |-> "sequence", value |-> n]
Timestamp(t) == [kind |-> "timestamp", value |-> t]

\* One call into the sink: the function, the entity path (or the application
\* id, the file or the timeline), the record, and the time coordinates the
\* sink holds when the call arrives.
SinkCall(fn, path, kind, data, time) ==
    [fn |-> fn, path |-> path, kind |-> kind, data |-> data, time |-> time]

\* An operation: calls are its sink calls in order; sink is the sink's answer
\* to its last call ("accepted", "rejected", or "none" without a call);
\* outcome is "ok" or the error the operation raised; ret is the string it
\* returned (<<>> for the methods that return None).
Op(op, f, l, path, step, calls, sink, outcome, ret) ==
    [op |-> op, flow |-> f, logger |-> l, path |-> path, step |-> step,
     calls |-> calls, sink |-> sink, outcome |-> outcome, ret |-> ret]

\* The frame of a context() generator suspended at its yield: its argument
\* and its local.  before is history: self.entity_prefix as it was when the
\* `with` statement called context().
ContextFrame(old_prefix, path_prefix, before) ==
    [kind |-> "context", old_prefix |-> old_prefix, path_prefix |-> path_prefix,
     before |-> before]
BatchFrame ==
    [kind |-> "batch", old_prefix |-> <<>>, path_prefix |-> <<>>, before |-> <<>>]

Top(f) == frames[f][Len(frames[f])]
Pop(f) == SubSeq(frames[f], 1, Len(frames[f]) - 1)

\* ------------------------------------------------------------- constructor

\* self.entity_prefix = entity_prefix or ""
PrefixOrEmpty(prefix) ==
    IF TruthyStr(prefix) THEN CHOOSE v \in prefix : TRUE ELSE <<>>

\* self.config = config or {}       ({} is the function with no keys)
ConfigOrEmpty(cfg) ==
    IF cfg # None /\ (\E d \in cfg : DOMAIN d # {})
    THEN CHOOSE d \in cfg : TRUE ELSE [k \in {} |-> TRUE]

\* spawn = self.config.get("spawn_viewer", True)
Spawn(cfg) == IF "spawn_viewer" \in DOMAIN cfg THEN cfg["spawn_viewer"] ELSE TRUE

\* A constructor that saves whenever the configuration has the key.
ShouldSaveIfPresent(save_path) == save_path # None

\* if save_path:
ShouldSave(save_path) == TruthyStr(save_path)

\* __init__: the attributes are assigned, then rr.init runs; when it raises,
\* __init__ ends there; otherwise rr.save runs if save_path is truthy.
Construct(l, app, prefix, cfg, init_ok, save_ok) ==
    /\ status[l] = "none"
    /\ \E f \in flows : uses[f] = l
    /\ LET c == ConfigOrEmpty(cfg)
           save_path == DictGet(c, "save_path")
           init == SinkCall("init", <<app>>, "init", Spawn(c), timelines)
           save == SinkCall("save", CHOOSE p \in save_path : TRUE, "save",
                            FALSE, timelines)
           saving == init_ok /\ ShouldSave(save_path)
           outcome == IF ~init_ok THEN "init_raised"
                      ELSE IF saving /\ ~save_ok THEN "save_raised" ELSE "ok"
       IN /\ application_id' = [application_id EXCEPT ![l] = app]
          /\ entity_prefix' = [entity_prefix EXCEPT ![l] = PrefixOrEmpty(prefix)]
          /\ ctor_prefix' = [ctor_prefix EXCEPT ![l] = PrefixOrEmpty(prefix)]
          /\ config' = [config EXCEPT ![l] = c]
          /\ init_calls' = [init_calls EXCEPT ![l] = @ + 1]
          /\ save_calls' = [save_calls EXCEPT ![l] = IF saving THEN @ + 1 ELSE @]
          /\ status' = [status EXCEPT ![l] = outcome]
          /\ last' = Op("construct", "", l, <<>>, None,
                        IF saving THEN <<init, save>> ELSE <<init>>,
                        IF outcome = "ok" THEN "accepted" ELSE "rejected",
                        outcome, <<>>)
    /\ UNCHANGED <<flows, uses, timelines, frames, exc, rejected>>

\* ---------------------------------------------------------- path composition

\* A _get_path that joins and does not strip.
GetPathNoStrip(prefix, path) ==
    IF prefix # <<>> THEN Join(prefix, path) ELSE path

\* _get_path
GetPath(prefix, path) ==
    IF prefix # <<>> THEN Strip(Join(prefix, path)) ELSE path

\* A flow may call a method when its Logger exists and no error is propagating.
Ready(f) == status[uses[f]] = "ok" /\ ~exc[f]

\* A direct call of _get_path: it returns a string and assigns nothing.
ResolvePath(f, path) ==
    /\ Ready(f)
    /\ last' = Op("_get_path", f, uses[f], path, None, <<>>, "none", "ok",
                  GetPath(entity_prefix[uses[f]], path))
    /\ UNCHANGED <<flows, uses, session, timelines, frames, exc, rejected>>

\* ------------------------------------------------------------------ logging

\* A session that remembers a rejection and fails every later call.
CallOutcomeSticky(l, accept) ==
    IF accept /\ ~rejected[l] THEN "ok" ELSE "SinkError"

\* How a call that forwards to the sink ends: the methods hold no handler and
\* the session keeps no record of a failure, so the call ends as the sink's
\* answer to this one record says.
CallOutcome(l, accept) == IF accept THEN "ok" ELSE "SinkError"

\* rr.log(self._get_path(path), record), as the last statement of method op:
\* the record goes to the sink, which accepts it or raises.  calls are the
\* sink calls the method made before, time the coordinates the sink holds.
RrLog(op, f, path, step, kind, data, calls, time, accept) ==
    LET l == uses[f]
        call == SinkCall("log", GetPath(entity_prefix[l], path), kind, data, time)
        outcome == CallOutcome(l, accept)
    IN /\ last' = Op(op, f, l, path, step, calls \o <<call>>,
                      IF accept THEN "accepted" ELSE "rejected", outcome, <<>>)
       /\ exc' = [exc EXCEPT ![f] = outcome # "ok"]
       /\ rejected' = [rejected EXCEPT ![l] = @ \/ ~accept]

\* level= of the TextLog each text method builds
LevelName(level) ==
    CASE level = "info" -> "INFO"
      [] level = "warning" -> "WARN"
      [] level = "debug" -> "DEBUG"
      [] level = "error" -> "ERROR"
      [] level = "critical" -> "CRITICAL"

\* info, warning, debug, error, critical
TextLog(f, level, accept) ==
    /\ Ready(f)
    /\ RrLog(level, f, <<"logs", "/", level>>, None, "TextLog",
             LevelName(level), <<>>, timelines, accept)
    /\ UNCHANGED <<flows, uses, session, timelines, frames>>

\* A log_scalar that tests `if step:`, which step 0 fails.
StepTruthy(step) == step # None /\ step # Some(0)

\* if step is not None:
StepGiven(step) == step # None

\* A log_scalar whose step is scoped to the call: without a step argument it
\* clears the "step" coordinate.
ScalarTimeCallScoped(time, step) ==
    [time EXCEPT !["step"] = IF StepGiven(step)
                             THEN Sequence(CHOOSE n \in step : TRUE) ELSE Unset]

\* The sink's coordinates once log_scalar has passed its
\*   if step is not None: rr.set_time(timeline="step", sequence=step)
ScalarTime(time, step) ==
    IF StepGiven(step)
    THEN [time EXCEPT !["step"] = Sequence(CHOOSE n \in step : TRUE)]
    ELSE time

\* log_scalar
LogScalar(f, path, step, accept) ==
    /\ Ready(f)
    /\ LET set == SinkCall("set_time", <<"step">>, "sequence",
                           CHOOSE n \in step : TRUE, timelines)
       IN /\ timelines' = ScalarTime(timelines, step)
          /\ RrLog("log_scalar", f, path, step, "Scalars", "value",
                   IF StepGiven(step) THEN <<set>> ELSE <<>>, timelines', accept)
    /\ UNCHANGED <<flows, uses, session, frames>>

\* log_image
LogImage(f, path, accept) ==
    /\ Ready(f)
    /\ RrLog("log_image", f, path, None, "Image", "image", <<>>, timelines, accept)
    /\ UNCHANGED <<flows, uses, session, timelines, frames>>

\* json.dumps(dictionary, indent=2, default=str) raises
JsonRaises(d) == d \in {"circular", "unprintable"}
\* str(dictionary) raises
StrRaises(d) == d = "unprintable"
JsonText(d) == <<"json", d>>
StrText(d) == <<"str", d>>

\* try: content = json.dumps(...)  except Exception: content = str(dictionary)
\* The result is the content, or the error that leaves the except clause.
DictContent(d) ==
    IF ~JsonRaises(d) THEN [raised |-> FALSE, content |-> JsonText(d)]
    ELSE IF ~StrRaises(d) THEN [raised |-> FALSE, content |-> StrText(d)]
    ELSE [raised |-> TRUE, content |-> <<>>]

\* log_dict
LogDict(f, path, d, accept) ==
    /\ Ready(f)
    /\ LET c == DictContent(d)
       IN IF c.raised
          THEN /\ last' = Op("log_dict", f, uses[f], path, None, <<>>, "none",
                             "ReprError", <<>>)
               /\ exc' = [exc EXCEPT ![f] = TRUE]
               /\ UNCHANGED rejected
          ELSE RrLog("log_dict", f, path, None, "TextDocument",
                     [content |-> c.content, media_type |-> "text/markdown"],
                     <<>>, timelines, accept)
    /\ UNCHANGED <<flows, uses, session, timelines, frames>>

\* ---------------------------------------------------------------- timelines

\* set_time_sequence
SetTimeSequence(f, timeline, step) ==
    /\ Ready(f)
    /\ timelines' = [timelines EXCEPT ![timeline] = Sequence(step)]
    /\ last' = Op("set_time_sequence", f, uses[f], <<timeline>>, Some(step),
                  <<SinkCall("set_time", <<timeline>>, "sequence", step, timelines)>>,
                  "accepted", "ok", <<>>)
    /\ UNCHANGED <<flows, uses, session, frames, exc, rejected>>

\* set_time_seconds
SetTimeSeconds(f, timeline, time) ==
    /\ Ready(f)
    /\ timelines' = [timelines EXCEPT ![timeline] = Timestamp(time)]
    /\ last' = Op("set_time_seconds", f, uses[f], <<timeline>>, Some(time),
                  <<SinkCall("set_time", <<timeline>>, "timestamp", time, timelines)>>,
                  "accepted", "ok", <<>>)
    /\ UNCHANGED <<flows, uses, session, frames, exc, rejected>>

\* ------------------------------------------------------------------- scopes

\* `with logger.batch():` reaches the body: the generator runs to its yield.
BatchEnter(f) ==
    /\ Ready(f)
    /\ Len(frames[f]) < MaxDepth
    /\ frames' = [frames EXCEPT ![f] = Append(@, BatchFrame)]
    /\ last' = Op("batch_enter", f, uses[f], <<>>, None, <<>>, "none", "ok", <<>>)
    /\ UNCHANGED <<flows, uses, session, timelines, exc, rejected>>

\* The body of `with logger.batch():` ends, normally or with an error, which
\* the generator does not handle.
BatchExit(f) ==
    /\ status[uses[f]] = "ok"
    /\ frames[f] # <<>> /\ Top(f).kind = "batch"
    /\ frames' = [frames EXCEPT ![f] = Pop(f)]
    /\ last' = Op("batch_exit", f, uses[f], <<>>, None, <<>>, "none",
                  IF exc[f] THEN "raised" ELSE "ok", <<>>)
    /\ UNCHANGED <<flows, uses, session, timelines, exc, rejected>>

\* A context() that takes the empty prefix as the one to go back to.
SnapshotEmpty(prefix) == <<>>

\* context(): old_prefix = self.entity_prefix
Snapshot(prefix) == prefix

\* A context() that does not append a segment the prefix already ends with.
EnterPrefixDedup(prefix, path_prefix) ==
    IF prefix = <<>> THEN path_prefix
    ELSE IF /\ Len(prefix) >= Len(path_prefix)
            /\ SubSeq(prefix, Len(prefix) - Len(path_prefix) + 1, Len(prefix))
                  = path_prefix
         THEN prefix
         ELSE Join(prefix, path_prefix)

\* context(), the assignment before the yield
EnterPrefix(prefix, path_prefix) ==
    IF prefix # <<>> THEN Join(prefix, path_prefix) ELSE path_prefix

\* A context() that restores after the yield without a finally clause: an
\* error thrown in at the yield skips the assignment.
ExitPrefixNoFinally(old_prefix, prefix, raised) ==
    IF raised THEN prefix ELSE old_prefix

\* context(), try: yield  finally: self.entity_prefix = old_prefix
\* raised: the body ended with an error (thrown into the generator at its yield).
ExitPrefix(old_prefix, prefix, raised) == old_prefix

\* `with logger.context(path_prefix):` reaches the body.
ContextEnter(f, path_prefix) ==
    /\ Ready(f)
    /\ Len(frames[f]) < MaxDepth
    /\ LET l == uses[f]
       IN /\ frames' = [frames EXCEPT
                          ![f] = Append(@, ContextFrame(Snapshot(entity_prefix[l]),
                                                 path_prefix, entity_prefix[l]))]
          /\ entity_prefix' = [entity_prefix EXCEPT
                                 ![l] = EnterPrefix(@, path_prefix)]
          /\ last' = Op("context_enter", f, l, path_prefix, None, <<>>, "none", "ok", <<>>)
    /\ UNCHANGED <<flows, uses, status, application_id, config, ctor_prefix,
                   init_calls, save_calls, timelines, exc, rejected>>

\* The body of `with logger.context(...):` ends, normally or with an error;
\* an error goes on propagating after the finally clause.
ContextExit(f) ==
    /\ status[uses[f]] = "ok"
    /\ frames[f] # <<>> /\ Top(f).kind = "context"
    /\ LET l == uses[f]
       IN /\ entity_prefix' = [entity_prefix EXCEPT
                                 ![l] = ExitPrefix(Top(f).old_prefix, @, exc[f])]
          /\ last' = Op("context_exit", f, l, Top(f).path_prefix, None, <<>>,
                        "none", IF exc[f] THEN "raised" ELSE "ok", <<>>)
    /\ frames' = [frames EXCEPT ![f] = Pop(f)]
    /\ UNCHANGED <<flows, uses, status, application_id, config, ctor_prefix,
                   init_calls, save_calls, timelines, exc, rejected>>

\* The caller's code inside a `with` body raises an error of its own.
Raise(f) ==
    /\ Ready(f)
    /\ frames[f] # <<>>
    /\ exc' = [exc EXCEPT ![f] = TRUE]
    /\ last' = Op("raise", f, uses[f], <<>>, None, <<>>, "none", "BodyError", <<>>)
    /\ UNCHANGED <<flows, uses, session, timelines, frames, rejected>>

\* The caller's except clause, at the current depth, takes the error.
Catch(f) ==
    /\ exc[f]
    /\ exc' = [exc EXCEPT ![f] = FALSE]
    /\ last' = Op("catch", f, uses[f], <<>>, None, <<>>, "none", "ok", <<>>)
    /\ UNCHANGED <<flows, uses, session, timelines, frames, rejected>>

\* ----------------------------------------------------------- specifications

NoOp == Op("none", "", "", <<>>, None, <<>>, "none", "ok", <<>>)

\* No Logger constructed yet, the sink's coordinates unset, and the given
\* flows bound to the Logger objects they will use.
Start(fs, u) ==
    /\ flows = fs
    /\ uses = u
    /\ status = [l \in Loggers |-> "none"]
    /\ application_id = [l \in Loggers |-> ""]
    /\ entity_prefix = [l \in Loggers |-> <<>>]
    /\ ctor_prefix = [l \in Loggers |-> <<>>]
    /\ config = [l \in Loggers |-> [k \in {} |-> TRUE]]
    /\ init_calls = [l \in Loggers |-> 0]
    /\ save_calls = [l \in Loggers |-> 0]
    /\ rejected = [l \in Loggers |-> FALSE]
    /\ timelines = [t \in Timelines |-> Unset]
    /\ frames = [f \in Flows |-> <<>>]
    /\ exc = [f \in Flows |-> FALSE]
    /\ last = NoOp

OwnLogger == [f \in Flows |-> IF f = "A" THEN "L1" ELSE "L2"]
SharedLogger == [f \in Flows |-> "L1"]

\* Spec: one control flow and one Logger; every entity_prefix, path_prefix,
\* path and dictionary, every answer of the sink, errors raised in `with`
\* bodies.  (The configuration and the time coordinates vary in SpecSink.)
Init == Start({"A"}, OwnLogger)

Next ==
    \/ \E l \in Loggers, app \in AppIds, prefix \in EntityPrefixes, init_ok \in BOOLEAN :
          Construct(l, app, prefix, None, init_ok, TRUE)
    \/ \E f \in flows, path \in RelPaths : ResolvePath(f, path)
    \/ \E f \in flows, level \in Levels, accept \in BOOLEAN : TextLog(f, level, accept)
    \/ \E f \in flows, path \in RelPaths, accept \in BOOLEAN :
          LogScalar(f, path, None, accept)
    \/ \E f \in flows, path \in RelPaths, accept \in BOOLEAN : LogImage(f, path, accept)
    \/ \E f \in flows, path \in RelPaths, d \in Dicts, accept \in BOOLEAN :
          LogDict(f, path, d, accept)
    \/ \E f \in flows, p \in PathPrefixes : ContextEnter(f, p)
    \/ \E f \in flows : ContextExit(f)
    \/ \E f \in flows : Raise(f)
    \/ \E f \in flows : Catch(f)

Spec == Init /\ [][Next]_vars

\* SpecSink: one control flow and one Logger; every configuration, every
\* answer of rr.init and rr.save, every timeline, step and timestamp, with
\* each kind of method and scope in between.
SinkPaths == {<<"c">>}
SinkPrefixes == {<<"a">>}
SinkDepth == 1

NextSink ==
    \/ \E l \in Loggers, app \in AppIds, cfg \in Configs,
          init_ok \in BOOLEAN, save_ok \in BOOLEAN :
          Construct(l, app, None, cfg, init_ok, save_ok)
    \/ \E f \in flows, level \in Levels, accept \in BOOLEAN :
          TextLog(f, level, accept)
    \/ \E f \in flows, path \in SinkPaths, step \in StepArgs, accept \in BOOLEAN :
          LogScalar(f, path, step, accept)
    \/ \E f \in flows, path \in SinkPaths : LogImage(f, path, TRUE)
    \/ \E f \in flows, path \in SinkPaths : LogDict(f, path, "plain", TRUE)
    \/ \E f \in flows, t \in Timelines, step \in Steps : SetTimeSequence(f, t, step)
    \/ \E f \in flows, t \in Timelines, time \in Times : SetTimeSeconds(f, t, time)
    \/ \E f \in flows : Len(frames[f]) < SinkDepth /\ BatchEnter(f)
    \/ \E f \in flows : BatchExit(f)
    \/ \E f \in flows, p \in SinkPrefixes :
          Len(frames[f]) < SinkDepth /\ ContextEnter(f, p)
    \/ \E f \in flows : ContextExit(f)
    \/ \E f \in flows : Catch(f)

SpecSink == Init /\ [][NextSink]_vars

\* SpecFlows: two control flows, A and B, that share one Logger or have one
\* each; A enters scopes "a" and B scopes "b", in any interleaving, with
\* records logged and rejected in between.  A step is one whole call of one
\* flow: the interleavings inside a call that threads add only matter when
\* the Logger is shared, and every state reached here is reached there too.
FlowPrefix == [f \in Flows |-> IF f = "A" THEN <<"a">> ELSE <<"b">>]
FlowEntityPrefixes == {None, Some(<<"p">>)}
FlowPaths == {<<"c">>}

InitFlows == \E u \in {OwnLogger, SharedLogger} : Start(Flows, u)

NextFlows ==
    \/ \E l \in Loggers, app \in AppIds, prefix \in FlowEntityPrefixes :
          Construct(l, app, prefix, None, TRUE, TRUE)
    \/ \E f \in flows, path \in FlowPaths, accept \in BOOLEAN :
          LogScalar(f, path, None, accept)
    \/ \E f \in flows :
          Len(entity_prefix[uses[f]]) < MaxPrefixLen /\ ContextEnter(f, FlowPrefix[f])
    \/ \E f \in flows : ContextExit(f)
    \/ \E f \in flows : Catch(f)

SpecFlows == InitFlows /\ [][NextFlows]_vars

\* ------------------------------------------------------------- properties

L == "L1"
Calls == last.calls
LastCall == last.calls[Len(last.calls)]
LogOps == Levels \cup {"log_scalar", "log_image", "log_dict"}

\* r is s without its leading and trailing "/" characters: s is some "/"s,
\* then r, then some "/"s, and r neither starts nor ends with "/".
IsStripOf(r, s) ==
    /\ \E i \in 0..Len(s) :
          /\ i + Len(r) <= Len(s)
          /\ \A k \in 1..i : s[k] = "/"
          /\ SubSeq(s, i + 1, i + Len(r)) = r
          /\ \A k \in (i + Len(r) + 1)..Len(s) : s[k] = "/"
    /\ r # <<>> => r[1] # "/" /\ r[Len(r)] # "/"

\* r is what resolve_path is specified to return for relative under prefix.
Resolves(prefix, relative, r) ==
    IF prefix = <<>> THEN r = relative
    ELSE IsStripOf(r, prefix \o <<"/">> \o relative)

\* The path_prefix arguments of flow f's open context scopes, in entry order.
RECURSIVE PathPrefixesOf(_)
PathPrefixesOf(fr) ==
    IF fr = <<>> THEN <<>>
    ELSE IF Head(fr).kind = "context"
         THEN <<Head(fr).path_prefix>> \o PathPrefixesOf(Tail(fr))
         ELSE PathPrefixesOf(Tail(fr))

\* The strings of a list joined by "/".
RECURSIVE JoinAll(_)
JoinAll(parts) ==
    IF parts = <<>> THEN <<>>
    ELSE IF Len(parts) = 1 THEN parts[1]
    ELSE parts[1] \o <<"/">> \o JoinAll(Tail(parts))

\* A list of strings without the empty strings at its front.
RECURSIVE DropLeadingEmpty(_)
DropLeadingEmpty(parts) ==
    IF parts # <<>> /\ Head(parts) = <<>> THEN DropLeadingEmpty(Tail(parts))
    ELSE parts

\* C1: when a context(path_prefix) scope is exited, normally or by an error
\* raised in its body (an error of the body's own or a sink rejection), the
\* session's entity prefix is what it was immediately before the scope was
\* entered.
C1_ContextRestores ==
    [][\A f \in flows :
          (frames[f] # <<>> /\ Top(f).kind = "context" /\ frames'[f] = Pop(f))
          => entity_prefix'[uses[f]] = Top(f).before]_vars

\* C1 witness: a scope entered under a non-empty prefix has been left by a
\* propagating error after a sink rejection, and the prefix is restored.
C1_Witness ==
    /\ last.op = "context_exit" /\ last.outcome = "raised"
    /\ rejected[L] /\ exc["A"] /\ frames["A"] = <<>>
    /\ ctor_prefix[L] # <<>> /\ entity_prefix[L] = ctor_prefix[L]

\* C2 as stated: the prefix is the construction-time prefix and the open
\* scopes' path_prefix arguments joined by "/" (the construction-time prefix
\* left out when empty), and a record logged inside the scopes goes to
\* prefix + "/" + its relative path.
C2_Original ==
    \A f \in flows :
       status[uses[f]] = "ok" =>
          /\ entity_prefix[uses[f]] =
                JoinAll((IF ctor_prefix[uses[f]] = <<>> THEN <<>>
                         ELSE <<ctor_prefix[uses[f]]>>) \o PathPrefixesOf(frames[f]))
          /\ (last.op \in LogOps /\ last.flow = f /\ Calls # <<>> /\ frames[f] # <<>>)
             => LastCall.path = Join(entity_prefix[uses[f]], last.path)

\* C2 as amended: the prefix is the construction-time prefix and the open
\* scopes' path_prefix arguments, without the empty strings at the front of
\* that list, joined by "/"; a record logged inside the scopes goes to
\* resolve_path of its relative path (prefix + "/" + relative stripped of its
\* leading and trailing "/", or relative alone under an empty prefix).  A
\* path_prefix entered twice is there twice, and with no scope open the
\* prefix is the construction-time prefix.
C2_NestedScopesCompose ==
    \A f \in flows :
       status[uses[f]] = "ok" =>
          /\ entity_prefix[uses[f]] =
                JoinAll(DropLeadingEmpty(<<ctor_prefix[uses[f]]>>
                                         \o PathPrefixesOf(frames[f])))
          /\ (last.op \in LogOps /\ last.flow = f /\ Calls # <<>> /\ frames[f] # <<>>)
             => Resolves(entity_prefix[uses[f]], last.path, LastCall.path)

\* C2 witness: "a" entered twice under the construction-time prefix "p", and
\* a record logged to "c" inside both scopes.
C2_Witness ==
    /\ ctor_prefix[L] = <<"p">>
    /\ PathPrefixesOf(frames["A"]) = <<(<<"a">>), (<<"a">>)>>
    /\ entity_prefix[L] = <<"p", "/", "a", "/", "a">>
    /\ last.op = "log_scalar" /\ last.outcome = "ok"
    /\ LastCall.path = <<"p", "/", "a", "/", "a", "/", "c">>

\* C3: _get_path returns the relative path unchanged under an empty prefix,
\* and otherwise prefix + "/" + relative without the leading and trailing
\* "/" of the whole; the result is determined by the prefix and the argument,
\* and the call changes nothing of the session, the sink or the scopes.
C3_ResolvePathPure ==
    [][last'.op = "_get_path" =>
          /\ Resolves(entity_prefix[last'.logger], last'.path, last'.ret)
          /\ UNCHANGED <<flows, uses, session, timelines, frames, exc, rejected>>]_vars

\* C3 witness: a call under a non-empty prefix where stripping removed
\* something.
C3_Witness ==
    /\ last.op = "_get_path"
    /\ entity_prefix[L] # <<>>
    /\ last.ret # Join(entity_prefix[L], last.path)

\* A string that neither starts nor ends with "/".
NoEdgeSlash(s) == s = <<>> \/ (s[1] # "/" /\ s[Len(s)] # "/")
\* A well-formed path: non-empty segments joined by single "/".
WellFormed(s) ==
    /\ s # <<>>
    /\ NoEdgeSlash(s)
    /\ \A k \in 1..(Len(s) - 1) : ~(s[k] = "/" /\ s[k + 1] = "/")

\* C4: in every state of a session the prefix neither starts nor ends with
\* "/", and composing it with any relative path gives non-empty segments
\* joined by single "/" (no leading, trailing or doubled "/"); so prefix
\* "a/b/" with relative "/c" resolves to "a/b/c".
C4_WellFormedPaths ==
    \A l \in Loggers :
       status[l] = "ok" =>
          /\ NoEdgeSlash(entity_prefix[l])
          /\ \A path \in RelPaths : WellFormed(GetPath(entity_prefix[l], path))

\* C6: log_dict ends "ok" or with the sink's error only, and forwards exactly
\* one TextDocument with non-empty content and media type "text/markdown" to
\* resolve_path(path), whatever the dictionary.
C6_DictNeverFails ==
    last.op = "log_dict" =>
       /\ last.outcome \in {"ok", "SinkError"}
       /\ Len(Calls) = 1
       /\ LastCall.fn = "log" /\ LastCall.kind = "TextDocument"
       /\ LastCall.data.content # <<>>
       /\ LastCall.data.media_type = "text/markdown"
       /\ LastCall.path = GetPath(entity_prefix[last.logger], last.path)

\* C7: every logging call forwards its record to the resolved path and ends
\* as the sink answers that record: "ok" when accepted, whatever was rejected
\* before, and the sink's error, raised to the caller, when rejected; either
\* way the prefix, the application id and the session's status stay as they
\* were.
C7_IndependentOutcomes ==
    [][(last'.op \in LogOps /\ last'.sink # "none") =>
          /\ last'.calls # <<>>
          /\ last'.calls[Len(last'.calls)].fn = "log"
          /\ last'.calls[Len(last'.calls)].path =
                GetPath(entity_prefix[last'.logger], last'.path)
          /\ last'.sink = "accepted" => (last'.outcome = "ok" /\ ~exc'[last'.flow])
          /\ last'.sink = "rejected" =>
                (last'.outcome = "SinkError" /\ exc'[last'.flow])
          /\ UNCHANGED <<entity_prefix, application_id, status>>]_vars

\* C7 witness: a log_scalar accepted and ended "ok" in a session whose sink
\* has rejected an earlier record.
C7_Witness ==
    /\ rejected[L]
    /\ last.op = "log_scalar" /\ last.sink = "accepted" /\ last.outcome = "ok"
    /\ ~exc["A"]

\* C5: the coordinate of a timeline changes only in set_time_sequence or
\* set_time_seconds of that timeline or, for "step", in log_scalar with a
\* step argument; text logging, log_scalar without a step, log_image,
\* log_dict, setting another timeline, batch and context entry and exit
\* leave it as it is.
C5_TimelineFrame ==
    [][\A t \in Timelines :
          timelines'[t] # timelines[t] =>
             \/ /\ last'.op \in {"set_time_sequence", "set_time_seconds"}
                /\ last'.path = <<t>>
             \/ /\ t = "step"
                /\ last'.op = "log_scalar" /\ last'.step # None]_vars

\* C5 witness: a log_scalar without a step forwarded at the "step" coordinate
\* an earlier call set (1), outside any scope, with the other timeline on a
\* timestamp of its own.
C5_Witness ==
    /\ last.op = "log_scalar" /\ last.step = None
    /\ timelines["step"] = Sequence(1)
    /\ LastCall.time["step"] = Sequence(1)
    /\ timelines["wall"] = Timestamp(0)
    /\ frames["A"] = <<>>

\* The save_path the constructor was given is a non-empty string.
HasSavePath(cfg) == "save_path" \in DOMAIN cfg /\ cfg["save_path"] # <<>>
\* rr.init returned (the constructor reached the save_path test).
InitReturned(l) == status[l] \in {"ok", "save_raised"}

\* What C8 says of the sink calls apart from when rr.save is called: one
\* rr.init per session, with the application id and spawn_viewer (true when
\* absent), first; rr.save only after it and at most once; neither of them
\* in any later operation; no rr.save when rr.init raised.
InitOnceThenSave ==
    /\ \A l \in Loggers :
          /\ status[l] = "none" => init_calls[l] = 0 /\ save_calls[l] = 0
          /\ status[l] # "none" => init_calls[l] = 1 /\ save_calls[l] \in {0, 1}
          /\ status[l] = "init_raised" => save_calls[l] = 0
    /\ last.op = "construct" =>
          /\ Calls[1].fn = "init"
          /\ Calls[1].path = <<application_id[last.logger]>>
          /\ Calls[1].data = (IF "spawn_viewer" \in DOMAIN config[last.logger]
                              THEN config[last.logger]["spawn_viewer"] ELSE TRUE)
          /\ Len(Calls) = 1 + save_calls[last.logger]
          /\ Len(Calls) = 2 =>
                /\ Calls[2].fn = "save"
                /\ Calls[2].path = config[last.logger]["save_path"]
          /\ last.outcome = status[last.logger]
    /\ last.op # "construct" =>
          \A i \in 1..Len(Calls) : Calls[i].fn \notin {"init", "save"}

\* C8 as stated: ..., and rr.save is called if and only if the configuration
\* carries a save_path.
C8_Original ==
    /\ InitOnceThenSave
    /\ \A l \in Loggers :
          InitReturned(l) => (save_calls[l] = 1 <=> "save_path" \in DOMAIN config[l])

\* C8 as amended: ..., and rr.save is called if and only if the configuration
\* carries a non-empty save_path.
C8_InitOnceSaveIfPath ==
    /\ InitOnceThenSave
    /\ \A l \in Loggers :
          InitReturned(l) => (save_calls[l] = 1 <=> HasSavePath(config[l]))

\* C8 witness: a session constructed with a save_path, its one rr.init and
\* one rr.save made, with a later log_scalar as the last operation.
C8_Witness ==
    /\ status[L] = "ok" /\ HasSavePath(config[L])
    /\ init_calls[L] = 1 /\ save_calls[L] = 1
    /\ last.op = "log_scalar"

\* C10: log_scalar with a step calls rr.set_time("step", sequence=step) and
\* then rr.log, so the sink holds that step when the Scalars record arrives
\* at resolve_path(path), whether the step is above or below the current
\* coordinate, and the coordinate is the new step afterwards even when the
\* sink rejects the record; without a step, rr.log is the only call and the
\* record arrives at the coordinates the sink holds.
C10_StepThenRecord ==
    last.op = "log_scalar" =>
       /\ LastCall.fn = "log" /\ LastCall.kind = "Scalars"
       /\ LastCall.path = GetPath(entity_prefix[last.logger], last.path)
       /\ LastCall.time = timelines
       /\ last.outcome = (IF last.sink = "accepted" THEN "ok" ELSE "SinkError")
       /\ last.step = None => Len(Calls) = 1
       /\ last.step # None =>
             /\ Len(Calls) = 2
             /\ Calls[1].fn = "set_time" /\ Calls[1].path = <<"step">>
             /\ Calls[1].kind = "sequence" /\ Some(Calls[1].data) = last.step
             /\ \A n \in last.step :
                   /\ Calls[2].time["step"] = Sequence(n)
                   /\ timelines["step"] = Sequence(n)

\* C10 witness: log_scalar(step=0) called while the "step" coordinate was 1
\* and rejected by the sink: the coordinate is 0.
C10_Witness ==
    /\ last.op = "log_scalar" /\ last.step = Some(0)
    /\ Calls[1].time["step"] = Sequence(1)
    /\ last.sink = "rejected" /\ last.outcome = "SinkError"
    /\ timelines["step"] = Sequence(0)

\* No Logger is used by two flows.
OnePerFlow == \A f, g \in flows : f # g => uses[f] # uses[g]
\* The prefix flow f's own open scopes compose under its Logger's
\* construction-time prefix.
OwnPrefix(f) ==
    JoinAll(DropLeadingEmpty(<<ctor_prefix[uses[f]]>> \o PathPrefixesOf(frames[f])))

\* C9: with one Logger per control flow, each session's prefix is the one
\* its flow's open scopes compose, so it is the construction-time prefix
\* whenever the flow has no scope open, and every record of the flow goes to
\* a path under it, however the two flows interleave.  (With one Logger for
\* both this fails: C9_Witness.)
C9_OneLoggerPerFlow ==
    OnePerFlow =>
       \A f \in flows :
          status[uses[f]] = "ok" =>
             /\ entity_prefix[uses[f]] = OwnPrefix(f)
             /\ (last.op = "log_scalar" /\ last.flow = f)
                => Resolves(OwnPrefix(f), last.path, LastCall.path)

\* C9 witness: A and B share one Logger; A entered, B entered, A exited, B
\* exited; no scope is open and the prefix is not the construction-time
\* prefix but A's "a".
C9_Witness ==
    /\ ~OnePerFlow
    /\ frames["A"] = <<>> /\ frames["B"] = <<>>
    /\ ~exc["A"] /\ ~exc["B"]
    /\ last.op = "context_exit" /\ last.flow = "B"
    /\ ctor_prefix[L] = <<>>
    /\ entity_prefix[L] = <<"a">>

\* The other half of what C9 says of a shared Logger: A, inside its scope
\* "a" only, logs "c", and the record goes to a path that holds B's "b".
C9_ForeignPrefix ==
    /\ ~OnePerFlow
    /\ PathPrefixesOf(frames["A"]) = <<(<<"a">>)>>
    /\ last.op = "log_scalar" /\ last.flow = "A"
    /\ ctor_prefix[L] = <<>>
    /\ LastCall.path = <<"a", "/", "b", "/", "c">>

====
